---- MODULE Spec2Model ----
(***************************************************************************)
(* Wallet ledger of examples/cryptocurrency-advanced/backend:              *)
(* schema.rs (SchemaImpl and its mutation primitives) and transactions.rs  *)
(* (the four handlers of CryptocurrencyInterface).                         *)
(*                                                                         *)
(* u64 arithmetic is modelled with its width: a build with overflow checks *)
(* panics on `+` / `-` out of range, a build without them wraps modulo     *)
(* 2^Width.  Width is scaled down from 64 so that the wrap is reachable.   *)
(***************************************************************************)
EXTENDS Integers, Sequences, FiniteSets, TLC

\* ------------------------------------------------------------------ bounds
\* Number of bits of the unsigned balance type (u64 in the source).
Width == 8
\* Number of transactions applied (returning Ok) in one behaviour.
MaxOps == 4

Modulus == 2 ^ Width
MaxU == Modulus - 1

\* lib.rs: pub const INITIAL_BALANCE (imported at schema.rs:27).
INITIAL_BALANCE == 100

\* Caller addresses, wallet names, amounts and random seeds the runtime supplies.
Address == {"A", "B", "C"}
Names == {"alice"}
Amounts == {40, 70, Modulus - INITIAL_BALANCE}
Seeds == {0, 1}

\* context.transaction_hash() is None.
NoHash == 0

VARIABLES
    wallets,                \* Schema::wallets: Address -> Wallet (partial map)
    wallet_history,         \* SchemaImpl::wallet_history: Address -> list of Hash
    approval_transactions,  \* Schema::approval_transactions: Hash -> TxSendApprove
    overflow_checks,        \* the build: TRUE = arithmetic overflow panics, FALSE = wraps
    next_hash,              \* hash the runtime assigns to the next stored transaction
    last,                   \* the last applied transaction: method, caller, hash, argument
    replay,                 \* a second run of the same invocations (used by SpecReplay)
    ledger                  \* accounts created and amounts issued (used by SpecLedger)

vars == <<wallets, wallet_history, approval_transactions, overflow_checks, next_hash, last,
          replay, ledger>>

store == <<wallets, wallet_history, approval_transactions>>

\* ------------------------------------------------------------ storage layer
\* ProofListIndex::object_hash: a deterministic, order-sensitive digest of the list.
RECURSIVE object_hash(_)
object_hash(list) ==
    IF list = <<>> THEN 7
    ELSE (object_hash(SubSeq(list, 1, Len(list) - 1)) * 31 + list[Len(list)]) % 1009

\* RawProofMapIndex::put
put(map, key, value) == (key :> value) @@ map

\* u64 `a + b` / `a - b`: out of range iff the exact result does not fit.
out_of_range(x) == x < 0 \/ x > MaxU
wrap(x) == x % Modulus

\* ---------------------------------------------------------------- wallet.rs
\* Wallet::new
Wallet_new(owner, name, balance, balance_freezed, history_len, history_hash) ==
    [owner |-> owner, name |-> name, balance |-> balance,
     balance_freezed |-> balance_freezed,
     history_len |-> history_len, history_hash |-> history_hash]

\* Wallet::set_balance: new balance, history_len + 1, new history hash.
set_balance(wallet, balance, history_hash) ==
    Wallet_new(wallet.owner, wallet.name, balance, wallet.balance_freezed,
               wallet.history_len + 1, history_hash)

\* Wallet::set_balance_freezed: new frozen balance, history_len + 1, new history hash.
set_balance_freezed(wallet, balance_freezed, history_hash) ==
    Wallet_new(wallet.owner, wallet.name, wallet.balance, balance_freezed,
               wallet.history_len + 1, history_hash)

\* ---------------------------------------------------------------- schema.rs
\* A view of the store as one handler invocation sees and writes it.  `panicked`
\* is set when an arithmetic overflow check fails; nothing runs after a panic.
Schema(w, h, a) ==
    [wallets |-> w, wallet_history |-> h, approval_transactions |-> a, panicked |-> FALSE]

\* SchemaImpl::wallet
has_wallet(schema, address) == address \in DOMAIN schema.wallets
wallet(schema, address) == schema.wallets[address]

\* Faulty variant of increase_wallet_balance: the digest is taken before the push.
increase_wallet_balance_stale_hash(schema, w, amount, transaction, checks) ==
    LET history == Append(schema.wallet_history[w.owner], transaction)
        pushed == [schema EXCEPT !.wallet_history[w.owner] = history]
        history_hash == object_hash(schema.wallet_history[w.owner])
        sum == w.balance + amount
    IN  IF schema.panicked THEN schema
        ELSE IF checks /\ out_of_range(sum) THEN [pushed EXCEPT !.panicked = TRUE]
        ELSE [pushed EXCEPT !.wallets =
                 put(@, w.owner, set_balance(w, wrap(sum), history_hash))]

\* SchemaImpl::increase_wallet_balance
increase_wallet_balance(schema, w, amount, transaction, checks) ==
    LET history == Append(schema.wallet_history[w.owner], transaction)
        pushed == [schema EXCEPT !.wallet_history[w.owner] = history]
        history_hash == object_hash(history)
        balance == w.balance
        sum == balance + amount
    IN  IF schema.panicked THEN schema
        ELSE IF checks /\ out_of_range(sum) THEN [pushed EXCEPT !.panicked = TRUE]
        ELSE [pushed EXCEPT !.wallets =
                 put(@, w.owner, set_balance(w, wrap(sum), history_hash))]

\* Faulty variant of decrease_wallet_balance: the transaction is put in front of the log.
decrease_wallet_balance_prepends(schema, w, amount, transaction, checks) ==
    LET history == <<transaction>> \o schema.wallet_history[w.owner]
        pushed == [schema EXCEPT !.wallet_history[w.owner] = history]
        history_hash == object_hash(history)
        diff == w.balance - amount
    IN  IF schema.panicked THEN schema
        ELSE IF checks /\ out_of_range(diff) THEN [pushed EXCEPT !.panicked = TRUE]
        ELSE [pushed EXCEPT !.wallets =
                 put(@, w.owner, set_balance(w, wrap(diff), history_hash))]

\* SchemaImpl::decrease_wallet_balance
decrease_wallet_balance(schema, w, amount, transaction, checks) ==
    LET history == Append(schema.wallet_history[w.owner], transaction)
        pushed == [schema EXCEPT !.wallet_history[w.owner] = history]
        history_hash == object_hash(history)
        balance == w.balance
        diff == balance - amount
    IN  IF schema.panicked THEN schema
        ELSE IF checks /\ out_of_range(diff) THEN [pushed EXCEPT !.panicked = TRUE]
        ELSE [pushed EXCEPT !.wallets =
                 put(@, w.owner, set_balance(w, wrap(diff), history_hash))]

\* Faulty variant of create_wallet_record: the balance arguments of Wallet::new swapped.
create_wallet_record_swapped(schema, key, name, transaction) ==
    LET history == Append(schema.wallet_history[key], transaction)
        pushed == [schema EXCEPT !.wallet_history[key] = history]
        history_hash == object_hash(history)
        w == Wallet_new(key, name, 0, INITIAL_BALANCE, Len(history), history_hash)
    IN  [pushed EXCEPT !.wallets = put(@, key, w)]

\* SchemaImpl::create_wallet
create_wallet_record(schema, key, name, transaction) ==
    LET history == Append(schema.wallet_history[key], transaction)
        pushed == [schema EXCEPT !.wallet_history[key] = history]
        history_hash == object_hash(history)
        w == Wallet_new(key, name, INITIAL_BALANCE, 0, Len(history), history_hash)
    IN  [pushed EXCEPT !.wallets = put(@, key, w)]

\* SchemaImpl::change_wallet_balance_freezed
change_wallet_balance_freezed(schema, w, amount, transaction, checks) ==
    LET history == Append(schema.wallet_history[w.owner], transaction)
        pushed == [schema EXCEPT !.wallet_history[w.owner] = history]
        history_hash_increase == object_hash(history)
        balance_freezed == w.balance_freezed
        sum == balance_freezed + amount
    IN  IF schema.panicked THEN schema
        ELSE IF checks /\ out_of_range(sum) THEN [pushed EXCEPT !.panicked = TRUE]
        ELSE [pushed EXCEPT !.wallets =
                 put(@, w.owner, set_balance_freezed(w, wrap(sum), history_hash_increase))]

\* TxSendApprove::new: the stored record carries a fresh random seed.
TxSendApprove_new(to, amount, approver, seed) ==
    [to |-> to, amount |-> amount, seed |-> seed, approver |-> approver]

\* Faulty variant of create_approve_transaction: amount and seed of the record swapped,
\* and the record's amount frozen.
create_approve_transaction_seed_as_amount(schema, w, amount, to, approver, tx_hash, seed, checks) ==
    LET transaction == TxSendApprove_new(to, seed, approver, amount)
        frozen == change_wallet_balance_freezed(schema, w, transaction.amount, tx_hash, checks)
    IN  IF frozen.panicked THEN frozen
        ELSE [frozen EXCEPT !.approval_transactions = put(@, tx_hash, transaction)]

\* SchemaImpl::create_approve_transaction
create_approve_transaction(schema, w, amount, to, approver, tx_hash, seed, checks) ==
    LET frozen == change_wallet_balance_freezed(schema, w, amount, tx_hash, checks)
        transaction == TxSendApprove_new(to, amount, approver, seed)
    IN  IF frozen.panicked THEN frozen
        ELSE [frozen EXCEPT !.approval_transactions = put(@, tx_hash, transaction)]

\* ----------------------------------------------------------- transactions.rs
\* A handler's outcome: the Result it returns ("Panic" when it unwinds instead)
\* and the store as the handler left it.
Outcome(result, schema) == [result |-> result, schema |-> schema]

Done(schema) == Outcome(IF schema.panicked THEN "Panic" ELSE "Ok", schema)

\* `sender.balance - sender.balance_freezed < amount`: the subtraction is u64.
\* "Panic" when the subtraction overflows under overflow checks.  tx_send_approve
\* names the field `freezed_balance` (line 227); it is read as the same field.
insufficient(w, amount, checks) ==
    LET diff == w.balance - w.balance_freezed
    IN  IF checks /\ out_of_range(diff) THEN "Panic"
        ELSE IF wrap(diff) < amount THEN "Yes" ELSE "No"

\* Faulty variant of transfer: the sender is debited before the receiver is looked up.
transfer_debits_first(schema, from, tx_hash, to, amount, checks) ==
    IF tx_hash = NoHash THEN Outcome("UnauthorizedCaller", schema)
    ELSE IF from = to THEN Outcome("SenderSameAsReceiver", schema)
    ELSE IF ~has_wallet(schema, from) THEN Outcome("SenderNotFound", schema)
    ELSE LET sender == wallet(schema, from)
             check == insufficient(sender, amount, checks)
             debited == decrease_wallet_balance(schema, sender, amount, tx_hash, checks)
         IN  IF check = "Panic" THEN Outcome("Panic", schema)
             ELSE IF check = "Yes" THEN Outcome("InsufficientCurrencyAmount", schema)
             ELSE IF ~has_wallet(schema, to) THEN Outcome("ReceiverNotFound", debited)
             ELSE Done(increase_wallet_balance(debited, wallet(schema, to), amount,
                                               tx_hash, checks))

\* CryptocurrencyInterface::transfer
transfer(schema, from, tx_hash, to, amount, checks) ==
    IF tx_hash = NoHash THEN Outcome("UnauthorizedCaller", schema)
    ELSE IF from = to THEN Outcome("SenderSameAsReceiver", schema)
    ELSE IF ~has_wallet(schema, from) THEN Outcome("SenderNotFound", schema)
    ELSE IF ~has_wallet(schema, to) THEN Outcome("ReceiverNotFound", schema)
    ELSE LET sender == wallet(schema, from)
             receiver == wallet(schema, to)
             check == insufficient(sender, amount, checks)
         IN  IF check = "Panic" THEN Outcome("Panic", schema)
             ELSE IF check = "Yes" THEN Outcome("InsufficientCurrencyAmount", schema)
             ELSE Done(increase_wallet_balance(
                          decrease_wallet_balance(schema, sender, amount, tx_hash, checks),
                          receiver, amount, tx_hash, checks))

\* Faulty variant of issue: the amount is credited a second time.
issue_credits_twice(schema, from, tx_hash, amount, checks) ==
    IF tx_hash = NoHash THEN Outcome("UnauthorizedCaller", schema)
    ELSE IF has_wallet(schema, from)
         THEN LET once == increase_wallet_balance(schema, wallet(schema, from), amount,
                                                  tx_hash, checks)
              IN  Done(increase_wallet_balance(once, wallet(once, from), amount, tx_hash,
                                               checks))
         ELSE Outcome("ReceiverNotFound", schema)

\* CryptocurrencyInterface::issue
issue(schema, from, tx_hash, amount, checks) ==
    IF tx_hash = NoHash THEN Outcome("UnauthorizedCaller", schema)
    ELSE IF has_wallet(schema, from)
         THEN Done(increase_wallet_balance(schema, wallet(schema, from), amount, tx_hash, checks))
         ELSE Outcome("ReceiverNotFound", schema)

\* Faulty variant of create_wallet: the wallet is looked up before the
\* transaction hash is extracted.
create_wallet_lookup_first(schema, from, tx_hash, name) ==
    IF has_wallet(schema, from) THEN Outcome("WalletAlreadyExists", schema)
    ELSE IF tx_hash = NoHash THEN Outcome("UnauthorizedCaller", schema)
    ELSE Done(create_wallet_record(schema, from, name, tx_hash))

\* Faulty variant of create_wallet: no check that the caller has no wallet yet.
create_wallet_overwrites(schema, from, tx_hash, name) ==
    IF tx_hash = NoHash THEN Outcome("UnauthorizedCaller", schema)
    ELSE Done(create_wallet_record(schema, from, name, tx_hash))

\* CryptocurrencyInterface::create_wallet
create_wallet(schema, from, tx_hash, name) ==
    IF tx_hash = NoHash THEN Outcome("UnauthorizedCaller", schema)
    ELSE IF ~has_wallet(schema, from)
         THEN Done(create_wallet_record(schema, from, name, tx_hash))
         ELSE Outcome("WalletAlreadyExists", schema)

\* CryptocurrencyInterface::tx_send_approve
tx_send_approve(schema, from, tx_hash, to, approver, amount, seed, checks) ==
    IF tx_hash = NoHash THEN Outcome("UnauthorizedCaller", schema)
    ELSE IF from = to THEN Outcome("SenderSameAsReceiver", schema)
    ELSE IF ~has_wallet(schema, from) THEN Outcome("SenderNotFound", schema)
    ELSE IF ~has_wallet(schema, to) THEN Outcome("ReceiverNotFound", schema)
    ELSE IF ~has_wallet(schema, approver) THEN Outcome("ApproverNotFound", schema)
    ELSE LET sender_wallet == wallet(schema, from)
             check == insufficient(sender_wallet, amount, checks)
         IN  IF check = "Panic" THEN Outcome("Panic", schema)
             ELSE IF check = "Yes" THEN Outcome("InsufficientCurrencyAmount", schema)
             ELSE Done(create_approve_transaction(schema, sender_wallet, amount, to,
                                                  approver, tx_hash, seed, checks))

\* ------------------------------------------------------------------ runtime
\* The host runtime around one invocation.  A handler that returns (Ok or Err)
\* leaves the store as it wrote it; a handler that panics is aborted by the
\* runtime and its writes are discarded (all-or-nothing per invocation).
Errors == {"UnauthorizedCaller", "SenderSameAsReceiver", "SenderNotFound",
           "ReceiverNotFound", "ApproverNotFound", "InsufficientCurrencyAmount",
           "WalletAlreadyExists"}

TxHashes == {NoHash, next_hash}

Current == Schema(wallets, wallet_history, approval_transactions)

\* What the runtime keeps of an invocation.
Commit(schema, out) == IF out.result = "Panic" THEN schema ELSE out.schema

Execute(out, call) ==
    /\ wallets' = Commit(Current, out).wallets
    /\ wallet_history' = Commit(Current, out).wallet_history
    /\ approval_transactions' = Commit(Current, out).approval_transactions
    /\ IF out.result = "Ok"
       THEN last' = call /\ next_hash' = next_hash + 1
       ELSE UNCHANGED <<last, next_hash>>
    /\ UNCHANGED overflow_checks

NoArg == [to |-> "-", approver |-> "-", amount |-> 0, name |-> "-"]

Call(method, from, tx_hash, arg) ==
    [method |-> method, from |-> from, tx_hash |-> tx_hash,
     to |-> arg.to, approver |-> arg.approver, amount |-> arg.amount, name |-> arg.name]

Transfer(from, tx_hash, to, amount) ==
    /\ next_hash <= MaxOps
    /\ Execute(transfer(Current, from, tx_hash, to, amount, overflow_checks),
               Call("transfer", from, tx_hash, [NoArg EXCEPT !.to = to, !.amount = amount]))
    /\ UNCHANGED <<replay, ledger>>

Issue(from, tx_hash, amount) ==
    /\ next_hash <= MaxOps
    /\ Execute(issue(Current, from, tx_hash, amount, overflow_checks),
               Call("issue", from, tx_hash, [NoArg EXCEPT !.amount = amount]))
    /\ UNCHANGED <<replay, ledger>>

CreateWallet(from, tx_hash, name) ==
    /\ next_hash <= MaxOps
    /\ Execute(create_wallet(Current, from, tx_hash, name),
               Call("create_wallet", from, tx_hash, [NoArg EXCEPT !.name = name]))
    /\ UNCHANGED <<replay, ledger>>

SendApprove(from, tx_hash, to, approver, amount, seed) ==
    /\ next_hash <= MaxOps
    /\ Execute(tx_send_approve(Current, from, tx_hash, to, approver, amount, seed,
                               overflow_checks),
               Call("tx_send_approve", from, tx_hash,
                    [NoArg EXCEPT !.to = to, !.approver = approver, !.amount = amount]))
    /\ UNCHANGED <<replay, ledger>>

Init ==
    /\ wallets = <<>>
    /\ wallet_history = [a \in Address |-> <<>>]
    /\ approval_transactions = <<>>
    /\ overflow_checks \in BOOLEAN
    /\ next_hash = 1
    /\ last = Call("none", "-", NoHash, NoArg)
    /\ replay = [wallets |-> <<>>, wallet_history |-> [a \in Address |-> <<>>],
                 approval_transactions |-> <<>>, agree |-> TRUE]
    /\ ledger = [created |-> 0, issued |-> 0, overflowed |-> FALSE]

Next ==
    \/ \E from \in Address, h \in TxHashes, to \in Address, amount \in Amounts :
          Transfer(from, h, to, amount)
    \/ \E from \in Address, h \in TxHashes, amount \in Amounts :
          Issue(from, h, amount)
    \/ \E from \in Address, h \in TxHashes, name \in Names :
          CreateWallet(from, h, name)
    \/ \E from \in Address, h \in TxHashes, to \in Address, approver \in Address,
          amount \in Amounts, seed \in Seeds :
          SendApprove(from, h, to, approver, amount, seed)

Spec == Init /\ [][Next]_vars

\* ------------------------------------------------------------- two runs
\* The same sequence of invocations (callers, hashes, arguments) run a second
\* time from the empty store by the same build.  Only the seed drawn by
\* TxSendApprove::new differs between the runs.  `agree` records that every
\* invocation so far returned the same outcome in both runs.
Replayed == Schema(replay.wallets, replay.wallet_history, replay.approval_transactions)

ExecuteReplay(out, out2) ==
    /\ replay' = [wallets |-> Commit(Replayed, out2).wallets,
                  wallet_history |-> Commit(Replayed, out2).wallet_history,
                  approval_transactions |-> Commit(Replayed, out2).approval_transactions,
                  agree |-> replay.agree /\ out.result = out2.result]
    /\ UNCHANGED ledger

TransferTwice(from, tx_hash, to, amount) ==
    /\ next_hash <= MaxOps
    /\ Execute(transfer(Current, from, tx_hash, to, amount, overflow_checks),
               Call("transfer", from, tx_hash, [NoArg EXCEPT !.to = to, !.amount = amount]))
    /\ ExecuteReplay(transfer(Current, from, tx_hash, to, amount, overflow_checks),
                     transfer(Replayed, from, tx_hash, to, amount, overflow_checks))

IssueTwice(from, tx_hash, amount) ==
    /\ next_hash <= MaxOps
    /\ Execute(issue(Current, from, tx_hash, amount, overflow_checks),
               Call("issue", from, tx_hash, [NoArg EXCEPT !.amount = amount]))
    /\ ExecuteReplay(issue(Current, from, tx_hash, amount, overflow_checks),
                     issue(Replayed, from, tx_hash, amount, overflow_checks))

CreateWalletTwice(from, tx_hash, name) ==
    /\ next_hash <= MaxOps
    /\ Execute(create_wallet(Current, from, tx_hash, name),
               Call("create_wallet", from, tx_hash, [NoArg EXCEPT !.name = name]))
    /\ ExecuteReplay(create_wallet(Current, from, tx_hash, name),
                     create_wallet(Replayed, from, tx_hash, name))

SendApproveTwice(from, tx_hash, to, approver, amount, seed, seed2) ==
    /\ next_hash <= MaxOps
    /\ Execute(tx_send_approve(Current, from, tx_hash, to, approver, amount, seed,
                               overflow_checks),
               Call("tx_send_approve", from, tx_hash,
                    [NoArg EXCEPT !.to = to, !.approver = approver, !.amount = amount]))
    /\ ExecuteReplay(tx_send_approve(Current, from, tx_hash, to, approver, amount, seed,
                                     overflow_checks),
                     tx_send_approve(Replayed, from, tx_hash, to, approver, amount, seed2,
                                     overflow_checks))

\* Amounts the two runs are driven with.
ReplayAmounts == {40, Modulus - INITIAL_BALANCE}

NextReplay ==
    \/ \E from \in Address, h \in TxHashes, to \in Address, amount \in ReplayAmounts :
          TransferTwice(from, h, to, amount)
    \/ \E from \in Address, h \in TxHashes, amount \in ReplayAmounts :
          IssueTwice(from, h, amount)
    \/ \E from \in Address, h \in TxHashes, name \in Names :
          CreateWalletTwice(from, h, name)
    \/ \E from \in Address, h \in TxHashes, to \in Address, approver \in Address,
          amount \in ReplayAmounts, seed \in Seeds, seed2 \in Seeds :
          SendApproveTwice(from, h, to, approver, amount, seed, seed2)

SpecReplay == Init /\ [][NextReplay]_vars

\* ------------------------------------------------------------- the ledger
\* The same invocations with a ledger kept beside the store: the number of
\* wallets created, the sum of the amounts issued, and whether the exact sum of
\* some stored credit (schema.rs:73) did not fit the balance type.  Only applied
\* transactions (those returning Ok) are entered.
Enter(out, created, issued, overflow) ==
    ledger' = IF out.result = "Ok"
              THEN [created |-> ledger.created + created,
                    issued |-> ledger.issued + issued,
                    overflowed |-> ledger.overflowed \/ overflow]
              ELSE ledger

TransferLedger(from, tx_hash, to, amount) ==
    /\ next_hash <= MaxOps
    /\ Execute(transfer(Current, from, tx_hash, to, amount, overflow_checks),
               Call("transfer", from, tx_hash, [NoArg EXCEPT !.to = to, !.amount = amount]))
    /\ Enter(transfer(Current, from, tx_hash, to, amount, overflow_checks), 0, 0,
             out_of_range(wallets[to].balance + amount))
    /\ UNCHANGED replay

IssueLedger(from, tx_hash, amount) ==
    /\ next_hash <= MaxOps
    /\ Execute(issue(Current, from, tx_hash, amount, overflow_checks),
               Call("issue", from, tx_hash, [NoArg EXCEPT !.amount = amount]))
    /\ Enter(issue(Current, from, tx_hash, amount, overflow_checks), 0, amount,
             out_of_range(wallets[from].balance + amount))
    /\ UNCHANGED replay

CreateWalletLedger(from, tx_hash, name) ==
    /\ next_hash <= MaxOps
    /\ Execute(create_wallet(Current, from, tx_hash, name),
               Call("create_wallet", from, tx_hash, [NoArg EXCEPT !.name = name]))
    /\ Enter(create_wallet(Current, from, tx_hash, name), 1, 0, FALSE)
    /\ UNCHANGED replay

SendApproveLedger(from, tx_hash, to, approver, amount, seed) ==
    /\ next_hash <= MaxOps
    /\ Execute(tx_send_approve(Current, from, tx_hash, to, approver, amount, seed,
                               overflow_checks),
               Call("tx_send_approve", from, tx_hash,
                    [NoArg EXCEPT !.to = to, !.approver = approver, !.amount = amount]))
    /\ Enter(tx_send_approve(Current, from, tx_hash, to, approver, amount, seed,
                             overflow_checks), 0, 0, FALSE)
    /\ UNCHANGED replay

NextLedger ==
    \/ \E from \in Address, h \in TxHashes, to \in Address, amount \in Amounts :
          TransferLedger(from, h, to, amount)
    \/ \E from \in Address, h \in TxHashes, amount \in Amounts :
          IssueLedger(from, h, amount)
    \/ \E from \in Address, h \in TxHashes, name \in Names :
          CreateWalletLedger(from, h, name)
    \/ \E from \in Address, h \in TxHashes, to \in Address, approver \in Address,
          amount \in Amounts, seed \in Seeds :
          SendApproveLedger(from, h, to, approver, amount, seed)

SpecLedger == Init /\ [][NextLedger]_vars

\* ------------------------------------------------------------ checked claims
\* The three collections of a schema view.
StoreOf(schema) == <<schema.wallets, schema.wallet_history, schema.approval_transactions>>

\* The step applied a transaction (its hash is used up).
Applied == next_hash' = next_hash + 1

\* A returned error left the store as it was.
NoOpIfError(out) == out.result \in Errors => StoreOf(out.schema) = store

\* C1: in every reachable state every existing account satisfies
\* 0 <= balance_freezed <= balance.
C1_FrozenWithinBalance ==
    \A a \in DOMAIN wallets :
        /\ 0 <= wallets[a].balance_freezed
        /\ wallets[a].balance_freezed <= wallets[a].balance

\* The runtime still invokes handlers in this state (the bound is not reached).
Invoking == next_hash <= MaxOps

\* C2: in every reachable state in which handlers are invoked, every invocation
\* of one of the four handlers that returns an error leaves the account map,
\* every history log and the pending-escrow map as they were before it.
C2_RejectionIsNoOp ==
    Invoking =>
    \A from \in Address, h \in TxHashes :
        /\ \A name \in Names : NoOpIfError(create_wallet(Current, from, h, name))
        /\ \A amount \in Amounts :
              /\ NoOpIfError(issue(Current, from, h, amount, overflow_checks))
              /\ \A to \in Address :
                    /\ NoOpIfError(transfer(Current, from, h, to, amount, overflow_checks))
                    /\ \A approver \in Address, seed \in Seeds :
                          NoOpIfError(tx_send_approve(Current, from, h, to, approver,
                                                      amount, seed, overflow_checks))

\* C2 witness: handlers are still invoked, an escrow was just applied, and in
\* this state the handlers reject invocations with InsufficientCurrencyAmount,
\* ReceiverNotFound, SenderSameAsReceiver, ApproverNotFound, WalletAlreadyExists
\* and UnauthorizedCaller.
C2_Witness ==
    /\ Invoking
    /\ last.method = "tx_send_approve"
    /\ wallets[last.from].balance_freezed > 0
    /\ \E to \in Address, amount \in Amounts :
          /\ transfer(Current, last.from, next_hash, last.to, amount, overflow_checks).result
                = "InsufficientCurrencyAmount"
          /\ transfer(Current, last.from, next_hash, to, amount, overflow_checks).result
                = "ReceiverNotFound"
          /\ tx_send_approve(Current, last.from, next_hash, last.from, to, amount, 0,
                             overflow_checks).result = "SenderSameAsReceiver"
          /\ tx_send_approve(Current, last.from, next_hash, last.to, to, amount, 0,
                             overflow_checks).result = "ApproverNotFound"
          /\ create_wallet(Current, last.from, next_hash, "alice").result
                = "WalletAlreadyExists"
          /\ issue(Current, last.from, NoHash, amount, overflow_checks).result
                = "UnauthorizedCaller"

\* C5: in every reachable state, every account's history_len is the number of
\* entries of its history log and its history_hash is the digest of that log.
C5_HistoryInSync ==
    \A a \in DOMAIN wallets :
        /\ wallets[a].history_len = Len(wallet_history[a])
        /\ wallets[a].history_hash = object_hash(wallet_history[a])

\* C5 witness: an account that was created, credited or debited, and whose
\* funds were frozen: its log holds at least three entries.
C5_Witness ==
    \E a \in DOMAIN wallets :
        /\ Len(wallet_history[a]) >= 3
        /\ wallets[a].balance_freezed > 0
        /\ wallets[a].balance # INITIAL_BALANCE
        /\ last.method \in {"transfer", "issue"}

\* Sum of balance over a set of accounts of a wallet map.
RECURSIVE SumBalance(_, _)
SumBalance(map, accounts) ==
    IF accounts = {} THEN 0
    ELSE LET a == CHOOSE x \in accounts : TRUE
         IN  map[a].balance + SumBalance(map, accounts \ {a})

\* Available funds as the specification defines them: total minus frozen.
Available(a) == wallets[a].balance - wallets[a].balance_freezed

\* C3: a transfer that returns Ok, of amount A from X to Y, decreases X.balance
\* by exactly A, increases Y.balance by exactly A, leaves balance_freezed of X and
\* Y and every other account unchanged, and leaves the sum of balances unchanged.
C3_TransferConserves ==
    [][(Applied /\ last'.method = "transfer") =>
          LET X == last'.from
              Y == last'.to
              A == last'.amount
          IN  /\ X # Y
              /\ DOMAIN wallets' = DOMAIN wallets
              /\ wallets'[X].balance = wallets[X].balance - A
              /\ wallets'[Y].balance = wallets[Y].balance + A
              /\ wallets'[X].balance_freezed = wallets[X].balance_freezed
              /\ wallets'[Y].balance_freezed = wallets[Y].balance_freezed
              /\ \A a \in DOMAIN wallets \ {X, Y} : wallets'[a] = wallets[a]
              /\ SumBalance(wallets', DOMAIN wallets') = SumBalance(wallets, DOMAIN wallets)
      ]_vars

\* C4: for existing accounts X # Y, a transfer from X of more than
\* X.balance - X.balance_freezed fails with InsufficientCurrencyAmount, and so does
\* an escrow from X (with an existing approver) of more than that; with balance 100
\* and 40 frozen, a transfer of 70 is rejected and a transfer of 60 returns Ok and
\* leaves balance 40, balance_freezed 40.
C4_FrozenNeverSpendable ==
    \A X \in DOMAIN wallets : \A Y \in DOMAIN wallets \ {X} :
        /\ \A amount \in Amounts :
              amount > Available(X) =>
                 /\ transfer(Current, X, next_hash, Y, amount, overflow_checks).result
                       = "InsufficientCurrencyAmount"
                 /\ \A approver \in DOMAIN wallets, seed \in Seeds :
                       tx_send_approve(Current, X, next_hash, Y, approver, amount, seed,
                                       overflow_checks).result
                          = "InsufficientCurrencyAmount"
        /\ (wallets[X].balance = 100 /\ wallets[X].balance_freezed = 40) =>
              /\ transfer(Current, X, next_hash, Y, 70, overflow_checks).result
                    = "InsufficientCurrencyAmount"
              /\ LET out == transfer(Current, X, next_hash, Y, 60, overflow_checks)
                 IN  /\ out.result = "Ok"
                     /\ out.schema.wallets[X].balance = 40
                     /\ out.schema.wallets[X].balance_freezed = 40

\* C6: a credit whose addition does not fit the balance type is rejected and the
\* wrapped value is never stored, for Issue and for the receiver of a Transfer.
\* (An abort by the build's overflow check is counted as the rejection.)
C6_CreditOverflowRejected ==
    /\ \A a \in DOMAIN wallets, amount \in Amounts :
          wallets[a].balance + amount > MaxU =>
             LET out == issue(Current, a, next_hash, amount, overflow_checks)
             IN  /\ out.result # "Ok"
                 /\ Commit(Current, out).wallets[a].balance = wallets[a].balance
    /\ \A X \in DOMAIN wallets : \A Y \in DOMAIN wallets \ {X}, amount \in Amounts :
          (amount <= Available(X) /\ wallets[Y].balance + amount > MaxU) =>
             LET out == transfer(Current, X, next_hash, Y, amount, overflow_checks)
             IN  /\ out.result # "Ok"
                 /\ Commit(Current, out).wallets[Y].balance = wallets[Y].balance

\* C7: after any Transfer invocation either the sender's debit and the
\* receiver's credit of the amount, with both history appends, have been applied,
\* or nothing has changed.
C7_TransferAllOrNothing ==
    \A from \in Address, to \in Address, amount \in Amounts :
        LET out == transfer(Current, from, next_hash, to, amount, overflow_checks)
            kept == Commit(Current, out)
        IN  \/ StoreOf(kept) = store
            \/ /\ kept.wallets[from].balance = wallets[from].balance - amount
               /\ kept.wallets[to].balance = wallets[to].balance + amount
               /\ kept.wallet_history[from] = Append(wallet_history[from], next_hash)
               /\ kept.wallet_history[to] = Append(wallet_history[to], next_hash)

\* C9: in every reachable state, CreateAccount by a caller with no account
\* returns Ok and creates an account with owner = caller, balance =
\* INITIAL_BALANCE, balance_freezed = 0 and history_len = 1 whose only history
\* entry is the transaction hash; by a caller with an account it fails with
\* WalletAlreadyExists, whatever the name.
C9_CreateWallet ==
    \A from \in Address, name \in Names \cup {"bob", ""} :
        LET out == create_wallet(Current, from, next_hash, name)
        IN  IF from \in DOMAIN wallets
            THEN out.result = "WalletAlreadyExists"
            ELSE /\ out.result = "Ok"
                 /\ DOMAIN out.schema.wallets = DOMAIN wallets \cup {from}
                 /\ out.schema.wallets[from].owner = from
                 /\ out.schema.wallets[from].balance = INITIAL_BALANCE
                 /\ out.schema.wallets[from].balance_freezed = 0
                 /\ out.schema.wallets[from].history_len = 1
                 /\ out.schema.wallet_history[from] = <<next_hash>>

\* C9 witness: an account was just created while another account, which has
\* already been mutated, exists; the third address has no account yet.
C9_Witness ==
    /\ last.method = "create_wallet"
    /\ last.from \in DOMAIN wallets
    /\ wallets[last.from].history_len = 1
    /\ \E a \in DOMAIN wallets : wallets[a].history_len > 1
    /\ DOMAIN wallets # Address

\* C10: an Issue that returns Ok increases the caller's balance by exactly the
\* amount, appends the transaction hash to the caller's history, and changes no
\* other account, no other history log and no pending escrow; Issue by a caller
\* with no account fails with ReceiverNotFound.
C10_IssueFrame ==
    [][/\ (Applied /\ last'.method = "issue") =>
             LET a == last'.from
             IN  /\ DOMAIN wallets' = DOMAIN wallets
                 /\ wallets'[a].balance = wallets[a].balance + last'.amount
                 /\ wallet_history'[a] = Append(wallet_history[a], last'.tx_hash)
                 /\ \A b \in DOMAIN wallets \ {a} : wallets'[b] = wallets[b]
                 /\ \A b \in Address \ {a} : wallet_history'[b] = wallet_history[b]
                 /\ approval_transactions' = approval_transactions
       /\ \A a \in Address \ DOMAIN wallets, amount \in Amounts :
             issue(Current, a, next_hash, amount, overflow_checks).result
                = "ReceiverNotFound"
      ]_vars

\* C8: two runs of the same sequence of invocations from the empty store end with
\* identical account records and history logs and returned the same outcome for
\* every invocation, whatever seeds TxSendApprove::new drew in either run; the
\* pending escrows of the two runs differ in nothing but the seed.
C8_Deterministic ==
    /\ replay.wallets = wallets
    /\ replay.wallet_history = wallet_history
    /\ replay.agree
    /\ DOMAIN replay.approval_transactions = DOMAIN approval_transactions
    /\ \A h \in DOMAIN approval_transactions :
          [replay.approval_transactions[h] EXCEPT !.seed = 0]
             = [approval_transactions[h] EXCEPT !.seed = 0]

\* C8 witness: the two runs drew different seeds for an escrow, and a transfer
\* or an issue by the escrow's originator was applied after it.
C8_Witness ==
    /\ last.method \in {"transfer", "issue"}
    /\ \E h \in DOMAIN approval_transactions :
          /\ approval_transactions[h].seed # replay.approval_transactions[h].seed
          /\ h \in {wallet_history[last.from][i] : i \in 1..Len(wallet_history[last.from])}

\* The error the specification's order of checks prescribes for a transfer of
\* `amount` from `from` to `to` in this state ("none" when no check fails).
TransferFirstFailure(from, to, amount) ==
    IF from = to THEN "SenderSameAsReceiver"
    ELSE IF from \notin DOMAIN wallets THEN "SenderNotFound"
    ELSE IF to \notin DOMAIN wallets THEN "ReceiverNotFound"
    ELSE IF Available(from) < amount THEN "InsufficientCurrencyAmount"
    ELSE "none"

\* C11: in every reachable state a Transfer
\* reports the first failure that applies in the order SenderSameAsReceiver
\* (caller = to, whatever the balances and whether or not the caller has an
\* account), SenderNotFound, ReceiverNotFound, InsufficientCurrencyAmount
\* (balance - balance_freezed < amount), and reports none of them when none applies.
C11_TransferErrorOrder ==
    \A from \in Address, to \in Address, amount \in Amounts :
        LET out == transfer(Current, from, next_hash, to, amount, overflow_checks)
            expected == TransferFirstFailure(from, to, amount)
        IN  IF expected = "none" THEN out.result \notin Errors
            ELSE out.result = expected

\* Amounts an escrow is evaluated with: those of the runs and the two that
\* complete a frozen amount of 40 or 70 to 2^Width.
EscrowAmounts == Amounts \cup {Modulus - 40, Modulus - 70}

\* C12: in every reachable state, a CreateEscrow(to, approver, amount) by X that
\* returns Ok leaves X.balance unchanged, increases X.balance_freezed by exactly
\* amount, appends the transaction hash to X's history, records under the
\* transaction hash a pending escrow with that to, approver and amount, and
\* changes no other account record and no other history log.
C12_EscrowFrame ==
    \A X \in Address, to \in Address, approver \in Address, amount \in EscrowAmounts,
       seed \in Seeds :
        LET out == tx_send_approve(Current, X, next_hash, to, approver, amount, seed,
                                   overflow_checks)
            after == out.schema
        IN  out.result = "Ok" =>
               /\ DOMAIN after.wallets = DOMAIN wallets
               /\ after.wallets[X].balance = wallets[X].balance
               /\ after.wallets[X].balance_freezed = wallets[X].balance_freezed + amount
               /\ after.wallet_history[X] = Append(wallet_history[X], next_hash)
               /\ next_hash \in DOMAIN after.approval_transactions
               /\ after.approval_transactions[next_hash].to = to
               /\ after.approval_transactions[next_hash].approver = approver
               /\ after.approval_transactions[next_hash].amount = amount
               /\ \A a \in DOMAIN wallets \ {X} : after.wallets[a] = wallets[a]
               /\ \A a \in Address \ {X} : after.wallet_history[a] = wallet_history[a]

\* The error the specification's order of checks prescribes for an escrow of
\* `amount` by `from` for `to` with `approver` in this state ("none" when no
\* check fails).
EscrowFirstFailure(from, to, approver, amount) ==
    IF from = to THEN "SenderSameAsReceiver"
    ELSE IF from \notin DOMAIN wallets THEN "SenderNotFound"
    ELSE IF to \notin DOMAIN wallets THEN "ReceiverNotFound"
    ELSE IF approver \notin DOMAIN wallets THEN "ApproverNotFound"
    ELSE IF Available(from) < amount THEN "InsufficientCurrencyAmount"
    ELSE "none"

\* C13: in every reachable state a CreateEscrow reports the first failure that
\* applies in the order SenderSameAsReceiver, SenderNotFound, ReceiverNotFound,
\* ApproverNotFound, InsufficientCurrencyAmount (balance - balance_freezed <
\* amount), reports none of them when none applies, and in each of these cases
\* records no pending escrow and freezes nothing.
C13_EscrowErrorOrder ==
    \A from \in Address, to \in Address, approver \in Address, amount \in Amounts,
       seed \in Seeds :
        LET out == tx_send_approve(Current, from, next_hash, to, approver, amount, seed,
                                   overflow_checks)
            expected == EscrowFirstFailure(from, to, approver, amount)
        IN  IF expected = "none" THEN out.result \notin Errors
            ELSE /\ out.result = expected
                 /\ out.schema.approval_transactions = approval_transactions
                 /\ out.schema.wallets = wallets

\* The accounts an applied call mutates: both parties of a transfer, the caller
\* of every other method.
Mutated(call) == IF call.method = "transfer" THEN {call.from, call.to} ELSE {call.from}

\* C14: across every step the history log of every account is unchanged or
\* extended by exactly one entry at its end; an applied transaction appends its
\* hash to the log of, and adds exactly 1 to history_len of, every account it
\* mutates (a created account starts with history_len 1), and leaves the log
\* and history_len of every other account as they were; an applied Transfer
\* appends the same hash once to the sender's and once to the receiver's log.
C14_HistoryAppendOnly ==
    [][/\ \A a \in Address :
             \/ wallet_history'[a] = wallet_history[a]
             \/ \E h \in 1..MaxOps : wallet_history'[a] = Append(wallet_history[a], h)
       /\ DOMAIN wallets \subseteq DOMAIN wallets'
       /\ Applied =>
             /\ \A a \in Mutated(last') :
                   /\ wallet_history'[a] = Append(wallet_history[a], last'.tx_hash)
                   /\ wallets'[a].history_len
                         = (IF a \in DOMAIN wallets THEN wallets[a].history_len ELSE 0) + 1
             /\ \A a \in Address \ Mutated(last') :
                   /\ wallet_history'[a] = wallet_history[a]
                   /\ a \in DOMAIN wallets' =>
                         /\ a \in DOMAIN wallets
                         /\ wallets'[a].history_len = wallets[a].history_len
       /\ (Applied /\ last'.method = "transfer") =>
             /\ last'.from # last'.to
             /\ wallet_history'[last'.from]
                   = Append(wallet_history[last'.from], last'.tx_hash)
             /\ wallet_history'[last'.to] = Append(wallet_history[last'.to], last'.tx_hash)
       /\ ~Applied => wallet_history' = wallet_history
      ]_vars

\* C14 witness: a transfer was just applied between two accounts that had
\* both been mutated before; both logs end with the transfer's hash.
C14_Witness ==
    /\ last.method = "transfer"
    /\ Len(wallet_history[last.from]) >= 3
    /\ Len(wallet_history[last.to]) >= 2
    /\ wallet_history[last.from][Len(wallet_history[last.from])] = last.tx_hash
    /\ wallet_history[last.to][Len(wallet_history[last.to])] = last.tx_hash

\* C15: in every reachable state no subtraction of a handler underflows: for
\* every existing account the balance - balance_freezed that Transfer and
\* CreateEscrow compute is non-negative, and whenever the funds check of a
\* Transfer lets the debit through, the amount is at most the sender's balance,
\* so the balance the debit stores is the exact difference.
C15_NoUnderflow ==
    \A X \in DOMAIN wallets :
        /\ ~out_of_range(wallets[X].balance - wallets[X].balance_freezed)
        /\ \A Y \in DOMAIN wallets \ {X}, amount \in Amounts :
              insufficient(wallets[X], amount, overflow_checks) = "No" =>
                 /\ amount <= wallets[X].balance
                 /\ decrease_wallet_balance(Current, wallets[X], amount, next_hash,
                                            overflow_checks).wallets[X].balance
                       = wallets[X].balance - amount

\* The handler returned UnauthorizedCaller and left the store as it was.
Unauthorized(out) == out.result = "UnauthorizedCaller" /\ StoreOf(out.schema) = store

\* C16: in every reachable state, when the runtime supplies no transaction hash
\* every handler returns UnauthorizedCaller and writes nothing, whatever the
\* caller and the arguments: also when caller = to, when the caller, the
\* receiver or the approver has no account, when the caller already has one and
\* when the funds do not cover the amount.
C16_UnauthorizedFirst ==
    \A from \in Address :
        /\ \A name \in Names : Unauthorized(create_wallet(Current, from, NoHash, name))
        /\ \A amount \in Amounts :
              /\ Unauthorized(issue(Current, from, NoHash, amount, overflow_checks))
              /\ \A to \in Address :
                    /\ Unauthorized(transfer(Current, from, NoHash, to, amount,
                                             overflow_checks))
                    /\ \A approver \in Address :
                          Unauthorized(tx_send_approve(Current, from, NoHash, to, approver,
                                                       amount, 0, overflow_checks))

\* C16 witness: a state in which, given a transaction hash, the handlers report
\* SenderSameAsReceiver, SenderNotFound, ReceiverNotFound, ApproverNotFound,
\* WalletAlreadyExists and InsufficientCurrencyAmount for some caller and
\* arguments, and accept others.
C16_Witness ==
    \E X \in DOMAIN wallets, Y \in DOMAIN wallets, Z \in Address \ DOMAIN wallets :
        /\ X # Y
        /\ wallets[X].balance_freezed > 0
        /\ transfer(Current, X, next_hash, X, 40, overflow_checks).result
              = "SenderSameAsReceiver"
        /\ transfer(Current, Z, next_hash, X, 40, overflow_checks).result = "SenderNotFound"
        /\ issue(Current, Z, next_hash, 40, overflow_checks).result = "ReceiverNotFound"
        /\ tx_send_approve(Current, X, next_hash, Y, Z, 40, 0, overflow_checks).result
              = "ApproverNotFound"
        /\ create_wallet(Current, X, next_hash, "alice").result = "WalletAlreadyExists"
        /\ transfer(Current, X, next_hash, Y, 70, overflow_checks).result
              = "InsufficientCurrencyAmount"
        /\ transfer(Current, Y, next_hash, X, 70, overflow_checks).result = "Ok"
        /\ transfer(Current, Y, NoHash, X, 70, overflow_checks).result
              = "UnauthorizedCaller"

\* C17: across every step every existing account still exists with the same
\* owner (its key) and the same name, and in every reachable state a further
\* CreateAccount by the owner of an existing account, under any name, leaves
\* that account's record as it is.
C17_AccountPermanent ==
    [][\A a \in DOMAIN wallets :
          /\ a \in DOMAIN wallets'
          /\ wallets[a].owner = a
          /\ wallets'[a].owner = wallets[a].owner
          /\ wallets'[a].name = wallets[a].name
          /\ \A name \in Names \cup {"bob", ""} :
                Commit(Current, create_wallet(Current, a, next_hash, name)).wallets[a]
                   = wallets[a]
      ]_vars

\* C17 witness: an account that was created, then credited or debited, and
\* then froze funds, while another account exists; it still carries the name
\* it was created with.
C17_Witness ==
    /\ last.method = "tx_send_approve"
    /\ Len(wallet_history[last.from]) >= 3
    /\ wallets[last.from].balance # INITIAL_BALANCE
    /\ wallets[last.from].owner = last.from
    /\ wallets[last.from].name \in Names

\* Sum of the amounts of the pending escrows stored under a set of hashes.
RECURSIVE SumAmounts(_, _)
SumAmounts(map, hashes) ==
    IF hashes = {} THEN 0
    ELSE LET h == CHOOSE x \in hashes : TRUE
         IN  map[h].amount + SumAmounts(map, hashes \ {h})

\* The pending escrows an account created: the stored record does not name its
\* originator, so they are the records whose hash is in the account's history.
EscrowsOf(schema, a) ==
    {h \in DOMAIN schema.approval_transactions :
        \E i \in 1..Len(schema.wallet_history[a]) : schema.wallet_history[a][i] = h}

\* Every account's balance_freezed is the sum of the amounts of its escrows.
FrozenIsEscrowed(schema) ==
    \A a \in DOMAIN schema.wallets :
        schema.wallets[a].balance_freezed
           = SumAmounts(schema.approval_transactions, EscrowsOf(schema, a))

\* C18: with unique transaction hashes, in every reachable state and in the
\* state every CreateEscrow leaves, each account's balance_freezed equals the sum
\* of the amounts of the pending escrows it created; a CreateEscrow that returns
\* Ok adds exactly one record under a hash that held none and changes no other
\* record, and every other invocation leaves the records as they are.
C18_FrozenEqualsEscrows ==
    /\ FrozenIsEscrowed(Current)
    /\ next_hash \notin DOMAIN approval_transactions
    /\ \A from \in Address, to \in Address, amount \in EscrowAmounts :
          /\ \A approver \in Address, seed \in Seeds :
                LET out == tx_send_approve(Current, from, next_hash, to, approver, amount,
                                           seed, overflow_checks)
                    kept == Commit(Current, out)
                IN  /\ FrozenIsEscrowed(kept)
                    /\ IF out.result = "Ok"
                       THEN kept.approval_transactions
                               = put(approval_transactions, next_hash,
                                     TxSendApprove_new(to, amount, approver, seed))
                       ELSE kept.approval_transactions = approval_transactions
          /\ Commit(Current, transfer(Current, from, next_hash, to, amount,
                                      overflow_checks)).approval_transactions
                = approval_transactions
          /\ Commit(Current, issue(Current, from, next_hash, amount,
                                   overflow_checks)).approval_transactions
                = approval_transactions
          /\ \A name \in Names :
                Commit(Current, create_wallet(Current, from, next_hash,
                                              name)).approval_transactions
                   = approval_transactions

\* What an invocation kept of `schema` preserves of the current state: every
\* account keeps at least its frozen amount, the available funds (balance -
\* balance_freezed) of no account outside `credited` grow, and every pending
\* escrow is still recorded with the same to, approver and amount.
KeepsFrozen(schema, credited) ==
    /\ \A a \in DOMAIN wallets :
          /\ a \in DOMAIN schema.wallets
          /\ schema.wallets[a].balance_freezed >= wallets[a].balance_freezed
          /\ a \notin credited =>
                schema.wallets[a].balance - schema.wallets[a].balance_freezed
                   <= Available(a)
    /\ \A h \in DOMAIN approval_transactions :
          /\ h \in DOMAIN schema.approval_transactions
          /\ schema.approval_transactions[h].to = approval_transactions[h].to
          /\ schema.approval_transactions[h].approver = approval_transactions[h].approver
          /\ schema.approval_transactions[h].amount = approval_transactions[h].amount

\* C19: in every reachable state, whatever any of the four handlers is invoked
\* with, no account's balance_freezed decreases, every recorded pending escrow
\* stays recorded with the same to, approver and amount, and the available
\* funds of an account grow only for the caller of an Issue and the receiver of
\* a Transfer.
C19_FrozenStaysFrozen ==
    \A from \in Address, to \in Address, amount \in EscrowAmounts :
        /\ KeepsFrozen(Commit(Current, transfer(Current, from, next_hash, to, amount,
                                                overflow_checks)), {to})
        /\ KeepsFrozen(Commit(Current, issue(Current, from, next_hash, amount,
                                             overflow_checks)), {from})
        /\ \A name \in Names :
              KeepsFrozen(Commit(Current, create_wallet(Current, from, next_hash, name)), {})
        /\ \A approver \in Address, seed \in Seeds :
              KeepsFrozen(Commit(Current, tx_send_approve(Current, from, next_hash, to,
                                                          approver, amount, seed,
                                                          overflow_checks)), {})

\* C20: in every reachable state in which no stored credit has overflowed, the
\* sum of balance over all accounts equals INITIAL_BALANCE times the number of
\* accounts created plus the sum of the amounts of the applied Issues (so an
\* applied Transfer or CreateEscrow, which enters nothing in the ledger, leaves
\* the sum as it was).
C20_SupplyAccounted ==
    ~ledger.overflowed =>
        /\ ledger.created = Cardinality(DOMAIN wallets)
        /\ SumBalance(wallets, DOMAIN wallets)
              = INITIAL_BALANCE * ledger.created + ledger.issued

\* C20 witness: in the build without overflow checks and with no credit
\* overflowed so far, a transfer or an escrow was just applied after an Issue,
\* between two created accounts.
C20_Witness ==
    /\ ~overflow_checks
    /\ ~ledger.overflowed
    /\ ledger.issued > 0
    /\ ledger.created >= 2
    /\ last.method \in {"transfer", "tx_send_approve"}

====
